---- MODULE Spec2Model ----
(***************************************************************************)
(* aicmt: the Batch Planner (AIAnalyzer.analyze_changes) and the           *)
(* Repository Scanner (GitOperations.get_unstaged_changes and              *)
(* get_staged_changes), modelled from src/aicmt.                           *)
(*                                                                         *)
(* A path and a file content are sequences of one-character strings, so    *)
(* that str.split, str.startswith and the substring test of the source are *)
(* computed, not assumed.                                                  *)
(***************************************************************************)
EXTENDS Integers, Sequences, FiniteSets, TLC

VARIABLES
    \* ---- AIAnalyzer.analyze_changes ----
    changes,            \* the argument: a list of Change, each seen through .file
    CONFIG,             \* self.CONFIG: which of api_key / model / base_url are set
    grouping,           \* behaviour of the Grouping Client (the model endpoint)
    client,             \* self.client: "None" or "OpenAI"
    pc,                 \* position inside analyze_changes
    remaining_changes,  \* local of the batch loop
    batch_size,         \* local of the batch loop
    current_batch,      \* local of the batch loop: the batch about to be submitted
    all_results,        \* local of the batch loop
    result,             \* value returned by analyze_changes
    err,                \* kind of the ValueError raised by analyze_changes
    ncalls,             \* number of process_batch calls made (saturates at MaxCalls)
    last,               \* the most recent process_batch call: batch, outcome, groups
    first,              \* the first process_batch call of this analyze_changes
    okBatches,          \* the batches whose process_batch call succeeded, in order
    batch_mode,         \* TRUE once lines 78-83 switched to batch processing
    \* ---- GitOperations.get_unstaged_changes / get_staged_changes ----
    scope,              \* which scan runs: "unstaged", "staged", or "none"
    modified_files,     \* line 59: paths of repo.index.diff(None)
    untracked_files,    \* line 62: repo.untracked_files
    diff_index,         \* line 120: the staged diff entries
    scanned,            \* number of loop iterations completed
    scan_changes,       \* the local list `changes` of the scan
    warnings,           \* the console.print warnings of line 98, in order
    observed,           \* what each iteration found on disk and in git, in order
    scan_pc,            \* "scanning", "returned"
    \* ---- cli() and GitCommitAssistant.run ----
    argv,               \* sys.argv: "run", "help", "version" or "invalid"
    run_pc,             \* position inside cli() / run()
    exc,                \* the exception now propagating, or "none"
    exit_code,          \* the exit code of the process, once run_pc = "exited"
    ended_by,           \* how the process ended: "exit_program", "sys.exit", ...
    output,             \* the closing and error messages printed, in order
    run_changes,        \* line 29: the number of changes the scan returned
    commit_groups,      \* line 46: what analyze_changes returned
    approved_groups,    \* line 47: what display_commit_groups returned
    answers,            \* what Confirm.ask gave for each group shown
    confirmed,          \* what Confirm.ask gave for the push question
    gi,                 \* position of the loop of line 56 in approved_groups
    index,              \* the repository's index: the staged paths
    commits,            \* the commits this run created, in order
    pushed,             \* how many of them have been pushed
    trace,              \* history: the operations invoked and what they raised
    \* ---- AIAnalyzer._validate_and_format_result ----
    response,           \* the argument: the parsed content of the model's reply
    validated           \* what the call did: pending, raised, or the value returned

avars == <<changes, CONFIG, grouping, client, pc, remaining_changes, batch_size,
           current_batch, all_results, result, err, ncalls, last, first, okBatches,
           batch_mode>>

svars == <<scope, modified_files, untracked_files, diff_index, scanned,
           scan_changes, warnings, observed, scan_pc>>

rvars == <<argv, run_pc, exc, exit_code, ended_by, output, run_changes,
           commit_groups, approved_groups, answers, confirmed, gi, index,
           commits, pushed, trace>>

vvars == <<response, validated>>

ovars == <<rvars, vvars>>

vars == <<avars, svars, ovars>>

\* cli() does not run
RunIdle ==
    /\ argv = "run"
    /\ run_pc = "idle"
    /\ exc = "none"
    /\ exit_code = 0
    /\ ended_by = "none"
    /\ output = <<>>
    /\ run_changes = 0
    /\ commit_groups = <<>>
    /\ approved_groups = <<>>
    /\ answers = <<>>
    /\ confirmed = "none"
    /\ gi = 0
    /\ index = {}
    /\ commits = <<>>
    /\ pushed = 0
    /\ trace = <<>>

\* _validate_and_format_result is not called
ValidateIdle ==
    /\ response = [type |-> "null"]
    /\ validated = [state |-> "idle"]

OIdle == RunIdle /\ ValidateIdle

----------------------------------------------------------------------------
(* Bounds *)

MaxChanges == 4     \* longest change list given to analyze_changes
MaxCalls == 6       \* ncalls stops counting here
MaxLimitChanges == 3 \* longest change list of the runs checked for termination

----------------------------------------------------------------------------
(* Strings as sequences of characters *)

SLASH == "/"
DOT == "."

\* paths the change lists are drawn from: two files of one directory, files
\* of other directories, a file whose name contains another file's stem, and
\* a dot-file at the top level (its stem is the empty string)
PathPool ==
    { <<"p", "/", "a">>, <<"p", "/", "d">>, <<"q", "/", "b">>,
      <<"r", "/", "c">>, <<"s", "/", "a", ".", "t">>, <<".", "e">> }

RECURSIVE LastIndexOf(_, _, _)
\* greatest i <= n with s[i] = ch, 0 when there is none
LastIndexOf(s, ch, n) ==
    IF n = 0 THEN 0
    ELSE IF s[n] = ch THEN n
    ELSE LastIndexOf(s, ch, n - 1)

RECURSIVE FirstIndexOf(_, _, _)
\* least i >= n with s[i] = ch, Len(s) + 1 when there is none
FirstIndexOf(s, ch, n) ==
    IF n > Len(s) THEN Len(s) + 1
    ELSE IF s[n] = ch THEN n
    ELSE FirstIndexOf(s, ch, n + 1)

\* file.split("/")[-1]
BaseName(file) == SubSeq(file, LastIndexOf(file, SLASH, Len(file)) + 1, Len(file))

\* file.split("/")[-1].split(".")[0]
Stem(file) == SubSeq(BaseName(file), 1, FirstIndexOf(BaseName(file), DOT, 1) - 1)

\* "/".join(file.split("/")[:-1])
DirName(file) == SubSeq(file, 1, LastIndexOf(file, SLASH, Len(file)) - 1)

\* s in t   (Python substring test)
IsSubstring(s, t) ==
    \E i \in 0..(Len(t) - Len(s)) : SubSeq(t, i + 1, i + Len(s)) = s

\* Related with the stem taken from the candidate itself
Related_OwnStem(curr_change, change) ==
    \/ IsSubstring(Stem(change.file), change.file)
    \/ DirName(curr_change.file) = DirName(change.file)

\* the condition of ai_analyzer.py line 100
Related(curr_change, change) ==
    \/ IsSubstring(Stem(curr_change.file), change.file)
    \/ DirName(curr_change.file) = DirName(change.file)

----------------------------------------------------------------------------
(* List helpers *)

\* lst[:n] for n >= 0
Take(lst, n) == SubSeq(lst, 1, IF n < Len(lst) THEN n ELSE Len(lst))

\* lst[n:] for n >= 0
Drop(lst, n) == SubSeq(lst, n + 1, Len(lst))

\* lst after lst.pop(i), i counted from 0
PopAt(lst, i) == SubSeq(lst, 1, i) \o SubSeq(lst, i + 2, Len(lst))

Range(s) == { s[i] : i \in 1..Len(s) }

----------------------------------------------------------------------------
(* The locality extension, lines 94-105 *)

RECURSIVE ExtendLoop(_, _, _)
\* the for loop over enumerate(next_files): i is the index the list iterator
\* is at (counted from 0); next_files.pop(i) shortens the list under the
\* iterator, which then moves on to index i + 1 of the shortened list
ExtendLoop(batch, next_files, i) ==
    IF i >= Len(next_files) THEN batch
    ELSE LET change == next_files[i + 1] IN
         IF \E j \in 1..Len(batch) : Related(batch[j], change)
         THEN ExtendLoop(Append(batch, change), PopAt(next_files, i), i + 1)
         ELSE ExtendLoop(batch, next_files, i + 1)

\* lines 91-105: the batch submitted for a given remaining list and size
CurrentBatch(remaining, size) ==
    IF Len(remaining) > size
    THEN ExtendLoop(Take(remaining, size), Drop(remaining, size), 0)
    ELSE Take(remaining, size)

----------------------------------------------------------------------------
(* The Grouping Client: process_batch, lines 46-69 *)

\* the change lists analyze_changes is called with: distinct paths, scan order
IsInjective(s) == \A i, j \in 1..Len(s) : s[i] = s[j] => i = j

ChangeLists ==
    { [i \in 1..Len(s) |-> [file |-> s[i]]] :
        s \in { t \in UNION { [1..n -> PathPool] : n \in 0..MaxChanges } : IsInjective(t) } }

\* a client that answers anything, or one that fails with a context-length
\* error exactly on the batches of more than k changes (k = 0: on every batch)
GroupingClients ==
    { [kind |-> "free", k |-> 0] } \cup { [kind |-> "limit", k |-> k] : k \in 0..MaxChanges }

\* "ok": groups come back; "ctx": OpenAIError mentioning "maximum context
\* length"; "api_error": any other OpenAIError; "bad_response": the
\* ValueError / JSON error raised inside process_batch
Outcomes(batch) ==
    IF grouping.kind = "free" THEN {"ok", "ctx", "api_error", "bad_response"}
    ELSE IF Len(batch) > grouping.k THEN {"ctx"} ELSE {"ok"}

FilesOf(batch) == [i \in 1..Len(batch) |-> batch[i].file]

\* what the model may answer for a batch: one group with every file, or one
\* group per file
Groupings(batch) ==
    { << [files |-> FilesOf(batch)] >>,
      [i \in 1..Len(batch) |-> [files |-> << batch[i].file >>]] }

NoCall == [batch |-> <<>>, outcome |-> "none", groups |-> <<>>]

Called(batch, outcome, groups) == [batch |-> batch, outcome |-> outcome, groups |-> groups]

Count(n) == IF n < MaxCalls THEN n + 1 ELSE n

\* bookkeeping of one process_batch call
LogCall(call) ==
    /\ last' = call
    /\ first' = (IF ncalls = 0 THEN call ELSE first)
    /\ ncalls' = Count(ncalls)

\* lines 123-148: the ValueError an escaping exception is turned into
Translate(outcome) == IF outcome = "api_error" THEN "api" ELSE "response"

----------------------------------------------------------------------------
(* AIAnalyzer.analyze_changes *)

\* lines 18-29: _client() raises unless all three are set
ConfigOk == CONFIG.api_key /\ CONFIG.model /\ CONFIG.base_url

AInit ==
    /\ changes \in ChangeLists
    /\ CONFIG \in [api_key : BOOLEAN, model : BOOLEAN, base_url : BOOLEAN]
    /\ grouping \in GroupingClients
    /\ client = "None"
    /\ pc = "start"
    /\ remaining_changes = <<>>
    /\ batch_size = 0
    /\ current_batch = <<>>
    /\ all_results = <<>>
    /\ result = <<>>
    /\ err = "none"
    /\ ncalls = 0
    /\ last = NoCall
    /\ first = NoCall
    /\ batch_mode = FALSE
    /\ okBatches = <<>>

\* AnalyzeEmpty with the guard of line 36 placed after the call of line 41
AnalyzeEmpty_ClientFirst ==
    /\ pc = "start"
    /\ changes = <<>>
    /\ ConfigOk
    /\ client' = "OpenAI"
    /\ pc' = "returned"
    /\ result' = <<>>
    /\ UNCHANGED <<changes, CONFIG, grouping, current_batch, remaining_changes, batch_size,
                   all_results, err, ncalls, last, okBatches, first, batch_mode>>
    /\ UNCHANGED <<svars, ovars>>

\* lines 36-38
AnalyzeEmpty ==
    /\ pc = "start"
    /\ changes = <<>>
    /\ pc' = "returned"
    /\ result' = <<>>
    /\ UNCHANGED <<changes, CONFIG, grouping, current_batch, client,
                   remaining_changes, batch_size,
                   all_results, err, ncalls, last, okBatches, first, batch_mode>>
    /\ UNCHANGED <<svars, ovars>>

\* lines 41 and 15-32
ClientInit ==
    /\ pc = "start"
    /\ changes # <<>>
    /\ ConfigOk
    /\ client' = "OpenAI"
    /\ pc' = "first"
    /\ UNCHANGED <<changes, CONFIG, grouping, current_batch, remaining_changes, batch_size,
                   all_results, result, err, ncalls, last, okBatches, first,
                   batch_mode>>
    /\ UNCHANGED <<svars, ovars>>

\* lines 22-29, caught at 145
ClientInitFail ==
    /\ pc = "start"
    /\ changes # <<>>
    /\ ~ConfigOk
    /\ pc' = "raised"
    /\ err' = "config"
    /\ UNCHANGED <<changes, CONFIG, grouping, current_batch, client,
                   remaining_changes, batch_size,
                   all_results, result, ncalls, last, okBatches, first, batch_mode>>
    /\ UNCHANGED <<svars, ovars>>

\* FirstTryOk handing back the accumulator instead of the call's groups
FirstTryOk_ReturnsAccumulated ==
    /\ pc = "first"
    /\ "ok" \in Outcomes(changes)
    /\ \E groups \in Groupings(changes) :
         /\ LogCall(Called(changes, "ok", groups))
         /\ result' = all_results
    /\ okBatches' = Append(okBatches, changes)
    /\ pc' = "returned"
    /\ UNCHANGED <<changes, CONFIG, grouping, current_batch, client,
                   remaining_changes, batch_size,
                   all_results, err, batch_mode>>
    /\ UNCHANGED <<svars, ovars>>

\* line 73, the call returns
FirstTryOk ==
    /\ pc = "first"
    /\ "ok" \in Outcomes(changes)
    /\ \E groups \in Groupings(changes) :
         /\ LogCall(Called(changes, "ok", groups))
         /\ result' = groups
    /\ okBatches' = Append(okBatches, changes)
    /\ pc' = "returned"
    /\ UNCHANGED <<changes, CONFIG, grouping, current_batch, client,
                   remaining_changes, batch_size,
                   all_results, err, batch_mode>>
    /\ UNCHANGED <<svars, ovars>>

\* lines 74-83
FirstTryCtx ==
    /\ pc = "first"
    /\ "ctx" \in Outcomes(changes)
    /\ LogCall(Called(changes, "ctx", <<>>))
    /\ all_results' = <<>>
    /\ remaining_changes' = changes
    /\ batch_size' = Len(changes) \div 2
    /\ batch_mode' = TRUE
    /\ pc' = "loop"
    /\ UNCHANGED <<changes, CONFIG, grouping, current_batch, client, result, err, okBatches>>
    /\ UNCHANGED <<svars, ovars>>

\* lines 75-76 (another OpenAIError) or an exception that is no OpenAIError;
\* both end in the handlers of lines 123-148
FirstTryOther ==
    /\ pc = "first"
    /\ \E o \in Outcomes(changes) \cap {"api_error", "bad_response"} :
         /\ LogCall(Called(changes, o, <<>>))
         /\ err' = Translate(o)
    /\ pc' = "raised"
    /\ UNCHANGED <<changes, CONFIG, grouping, current_batch, client,
                   remaining_changes, batch_size,
                   all_results, result, okBatches, batch_mode>>
    /\ UNCHANGED <<svars, ovars>>

\* lines 85 and 121
LoopReturn ==
    /\ pc = "loop"
    /\ remaining_changes = <<>>
    /\ result' = all_results
    /\ pc' = "returned"
    /\ UNCHANGED <<changes, CONFIG, grouping, current_batch, client,
                   remaining_changes, batch_size,
                   all_results, err, ncalls, last, okBatches, first, batch_mode>>
    /\ UNCHANGED <<svars, ovars>>

\* lines 86-87, caught at 145
LoopFatal ==
    /\ pc = "loop"
    /\ remaining_changes # <<>>
    /\ batch_size < 1
    /\ err' = "single_change_exceeds"
    /\ pc' = "raised"
    /\ UNCHANGED <<changes, CONFIG, grouping, current_batch, client,
                   remaining_changes, batch_size,
                   all_results, result, ncalls, last, okBatches, first, batch_mode>>
    /\ UNCHANGED <<svars, ovars>>

\* lines 89-105: the batch of this iteration
BuildBatch ==
    /\ pc = "loop"
    /\ remaining_changes # <<>>
    /\ batch_size >= 1
    /\ current_batch' = CurrentBatch(remaining_changes, batch_size)
    /\ pc' = "call"
    /\ UNCHANGED <<changes, CONFIG, grouping, client, remaining_changes, batch_size,
                   all_results, result, err, ncalls, last, first, okBatches, batch_mode>>
    /\ UNCHANGED <<svars, ovars>>

\* BatchOk starting the remainder again from half of the input
BatchOk_ResetsSize ==
    /\ pc = "call"
    /\ "ok" \in Outcomes(current_batch)
    /\ \E groups \in Groupings(current_batch) :
         /\ LogCall(Called(current_batch, "ok", groups))
         /\ all_results' = all_results \o groups
    /\ okBatches' = Append(okBatches, current_batch)
    /\ remaining_changes' = Drop(remaining_changes, Len(current_batch))
    /\ batch_size' = Len(changes) \div 2
    /\ pc' = "loop"
    /\ UNCHANGED <<changes, CONFIG, grouping, client, current_batch,
                   result, err, batch_mode>>
    /\ UNCHANGED <<svars, ovars>>

\* lines 108-112
BatchOk ==
    /\ pc = "call"
    /\ "ok" \in Outcomes(current_batch)
    /\ \E groups \in Groupings(current_batch) :
         /\ LogCall(Called(current_batch, "ok", groups))
         /\ all_results' = all_results \o groups
    /\ okBatches' = Append(okBatches, current_batch)
    /\ remaining_changes' = Drop(remaining_changes, Len(current_batch))
    /\ pc' = "loop"
    /\ UNCHANGED <<changes, CONFIG, grouping, client, batch_size, current_batch,
                   result, err, batch_mode>>
    /\ UNCHANGED <<svars, ovars>>

\* BatchCtx dropping the batch that failed
BatchCtx_Consumes ==
    /\ pc = "call"
    /\ "ctx" \in Outcomes(current_batch)
    /\ LogCall(Called(current_batch, "ctx", <<>>))
    /\ batch_size' = (IF batch_size \div 2 > 1 THEN batch_size \div 2 ELSE 1)
    /\ remaining_changes' = Drop(remaining_changes, Len(current_batch))
    /\ pc' = "loop"
    /\ UNCHANGED <<changes, CONFIG, grouping, client, current_batch,
                   all_results, result, err, okBatches, batch_mode>>
    /\ UNCHANGED <<svars, ovars>>

\* lines 108 and 114-118
BatchCtx ==
    /\ pc = "call"
    /\ "ctx" \in Outcomes(current_batch)
    /\ LogCall(Called(current_batch, "ctx", <<>>))
    /\ batch_size' = (IF batch_size \div 2 > 1 THEN batch_size \div 2 ELSE 1)
    /\ pc' = "loop"
    /\ UNCHANGED <<changes, CONFIG, grouping, client, remaining_changes, current_batch,
                   all_results, result, err, okBatches, batch_mode>>
    /\ UNCHANGED <<svars, ovars>>

\* BatchOther treating every failure like a context-length failure (retry)
BatchOther_Retries ==
    /\ pc = "call"
    /\ \E o \in Outcomes(current_batch) \cap {"api_error", "bad_response"} :
         LogCall(Called(current_batch, o, <<>>))
    /\ batch_size' = (IF batch_size \div 2 > 1 THEN batch_size \div 2 ELSE 1)
    /\ pc' = "loop"
    /\ UNCHANGED <<changes, CONFIG, grouping, client, remaining_changes, current_batch,
                   all_results, result, err, okBatches, batch_mode>>
    /\ UNCHANGED <<svars, ovars>>

\* line 108, then line 119 or an exception that is no OpenAIError; both end
\* in the handlers of lines 123-148
BatchOther ==
    /\ pc = "call"
    /\ \E o \in Outcomes(current_batch) \cap {"api_error", "bad_response"} :
         /\ LogCall(Called(current_batch, o, <<>>))
         /\ err' = Translate(o)
    /\ pc' = "raised"
    /\ UNCHANGED <<changes, CONFIG, grouping, client, remaining_changes, batch_size,
                   current_batch, all_results, result, okBatches, batch_mode>>
    /\ UNCHANGED <<svars, ovars>>

ANext ==
    \/ AnalyzeEmpty
    \/ ClientInit
    \/ ClientInitFail
    \/ FirstTryOk
    \/ FirstTryCtx
    \/ FirstTryOther
    \/ LoopReturn
    \/ LoopFatal
    \/ BuildBatch
    \/ BatchOk
    \/ BatchCtx
    \/ BatchOther

\* the scanner does not run
ScanIdle ==
    /\ scope = "none"
    /\ modified_files = <<>>
    /\ untracked_files = <<>>
    /\ diff_index = <<>>
    /\ scanned = 0
    /\ scan_changes = <<>>
    /\ warnings = <<>>
    /\ observed = <<>>
    /\ scan_pc = "returned"

InitAnalyze == AInit /\ ScanIdle /\ OIdle

SpecAnalyze == InitAnalyze /\ [][ANext]_vars

\* analyze_changes runs sequentially and never waits: it keeps taking steps
\* the Batch Planner against the clients that fail exactly on the batches of
\* more than k changes, with a usable configuration, on the shorter lists
InitLimit ==
    /\ InitAnalyze
    /\ grouping.kind = "limit"
    /\ ConfigOk
    /\ Len(changes) <= MaxLimitChanges

NextLimit ==
    \/ AnalyzeEmpty
    \/ ClientInit
    \/ FirstTryOk
    \/ FirstTryCtx
    \/ LoopReturn
    \/ LoopFatal
    \/ BuildBatch
    \/ BatchOk
    \/ BatchCtx

\* analyze_changes runs sequentially and never waits: as long as a step is
\* possible, one is taken
FairLimit == InitLimit /\ [][NextLimit]_vars /\ WF_vars(NextLimit)

----------------------------------------------------------------------------
(* Text: file contents and diffs as sequences of characters *)

NL == "\n"
NUL == "0x00"       \* the NUL byte
BAD == "0xFF"       \* a byte that is not valid UTF-8

\* the binary probe of line 214 reads this many leading bytes (1024 * 1024 in
\* the source, scaled to the length of the modelled contents)
ProbeCap == 2

StartsWith(s, ch) == Len(s) >= 1 /\ s[1] = ch

RECURSIVE Split(_, _)
\* s.split(sep): always at least one piece
Split(s, sep) ==
    LET i == FirstIndexOf(s, sep, 1) IN
    IF i > Len(s) THEN << s >>
    ELSE << SubSeq(s, 1, i - 1) >> \o Split(SubSeq(s, i + 1, Len(s)), sep)

\* s.splitlines(): no piece for the end of a text that ends in a newline
SplitLines(s) ==
    LET pieces == Split(s, NL) IN
    IF pieces[Len(pieces)] = <<>> THEN SubSeq(pieces, 1, Len(pieces) - 1) ELSE pieces

RECURSIVE CountStarting(_, _)
\* len([line for line in lines if line.startswith(ch)])
CountStarting(lines, ch) ==
    IF lines = <<>> THEN 0
    ELSE (IF StartsWith(Head(lines), ch) THEN 1 ELSE 0) + CountStarting(Tail(lines), ch)

BINARY_MESSAGE == <<"[", "Binary file]">>
DELETED_MESSAGE == <<"[", "File deleted]">>

\* contents of a file on disk: empty, "h\n", two lines without a final
\* newline, a line starting with "+", a text starting with "[", a NUL inside
\* and beyond the probed prefix, and bytes that do not decode
FileContents ==
    { <<>>, <<"h", NL>>, <<"h", NL, "h">>, <<"+", "h", NL>>, <<"[", "h">>,
      <<NUL, "h">>, <<"h", "h", NUL>>, <<"h", BAD>> }

\* outputs of git diff: nothing, and a unified diff with its two header lines
DiffTexts ==
    { <<>>,
      <<"-", "-", "-", NL, "+", "+", "+", NL, "-", "h", NL, "+", "h", NL>> }

Change(file, status, diff, insertions, deletions) ==
    [file |-> file, status |-> status, diff |-> diff,
     insertions |-> insertions, deletions |-> deletions]

Returned(status, diff) == [raised |-> FALSE, status |-> status, diff |-> diff]
Raised(detail) == [raised |-> TRUE, detail |-> detail]

----------------------------------------------------------------------------
(* GitOperations.get_unstaged_changes *)

MaxFiles == 3       \* most files (modified + untracked) in one unstaged scan

\* the paths a scan finds, in the order git lists them
ScanPaths ==
    << <<"a", ".", "t">>, <<"b", ".", "t">>, <<"c", ".", "t">>,
       <<"d", ".", "t">>, <<"e", ".", "t">> >>

\* what one loop iteration finds for a tracked file: the result of
\* self.git.diff(file_path) and whether the file is on disk
TrackedFinds ==
    { [git_diff |-> "ok", diff |-> d, exists |-> TRUE] : d \in DiffTexts }
    \cup { [git_diff |-> g, diff |-> <<>>, exists |-> e] :
             g \in {"GitCommandError", "Exception"}, e \in BOOLEAN }

\* what one loop iteration finds for an untracked file: is_file(), whether
\* open() works, and the bytes of the file
UntrackedFinds ==
    { [is_file |-> TRUE, open |-> "ok", bytes |-> b] : b \in FileContents }
    \cup { [is_file |-> TRUE, open |-> "IOError", bytes |-> <<>>],
           [is_file |-> FALSE, open |-> "IOError", bytes |-> <<>>] }

\* HandleModifiedFile without the exists() test of line 192
HandleModifiedFile_NoExistsTest(file_path, found) ==
    IF found.git_diff = "ok" THEN Returned("modified", found.diff)
    ELSE IF found.git_diff = "GitCommandError"
         THEN Raised(<<"Failed to get diff for ", file_path>>)
         ELSE Raised(<<"git diff: ", found.git_diff>>)

\* lines 175-195
HandleModifiedFile(file_path, found) ==
    IF found.git_diff = "ok" THEN Returned("modified", found.diff)
    ELSE IF found.git_diff = "GitCommandError"
         THEN IF ~found.exists THEN Returned("deleted", DELETED_MESSAGE)
              ELSE Raised(<<"Failed to get diff for ", file_path>>)
         ELSE Raised(<<"git diff: ", found.git_diff>>)

\* HandleUntrackedFile probing the whole file for NUL, not the first ProbeCap bytes
HandleUntrackedFile_ProbesAll(file_path, found) ==
    IF ~found.is_file THEN Returned("deleted", DELETED_MESSAGE)
    ELSE IF found.open # "ok" THEN Raised(<<"open: ", found.open>>)
    ELSE IF NUL \in Range(found.bytes)
         THEN Returned("new file (binary)", BINARY_MESSAGE)
    ELSE IF BAD \in Range(found.bytes)
         THEN Returned("new file (binary)", BINARY_MESSAGE)
    ELSE Returned("new file", found.bytes)

\* HandleUntrackedFile reporting a vanished file with an empty diff
HandleUntrackedFile_EmptyDeleted(file_path, found) ==
    IF ~found.is_file THEN Returned("deleted", <<>>)
    ELSE IF found.open # "ok" THEN Raised(<<"open: ", found.open>>)
    ELSE IF NUL \in Range(Take(found.bytes, ProbeCap))
         THEN Returned("new file (binary)", BINARY_MESSAGE)
    ELSE IF BAD \in Range(found.bytes)
         THEN Returned("new file (binary)", BINARY_MESSAGE)
    ELSE Returned("new file", found.bytes)

\* lines 197-223
HandleUntrackedFile(file_path, found) ==
    IF ~found.is_file THEN Returned("deleted", DELETED_MESSAGE)
    ELSE IF found.open # "ok" THEN Raised(<<"open: ", found.open>>)
    ELSE IF NUL \in Range(Take(found.bytes, ProbeCap))
         THEN Returned("new file (binary)", BINARY_MESSAGE)
    ELSE IF BAD \in Range(found.bytes)
         THEN Returned("new file (binary)", BINARY_MESSAGE)
    ELSE Returned("new file", found.bytes)

\* lines 78-87
CountsDiff(diff) == diff # <<>> /\ ~StartsWith(diff, "[")

UnstagedInsertions(diff) ==
    IF CountsDiff(diff) THEN CountStarting(Split(diff, NL), "+") ELSE 0

UnstagedDeletions(diff) ==
    IF CountsDiff(diff) THEN CountStarting(Split(diff, NL), "-") ELSE 0

\* line 64: modified_files + untracked_files
ScanList == modified_files \o untracked_files

Warning(file_path, detail) == [file |-> file_path, detail |-> detail]

AIdle ==
    /\ changes = <<>>
    /\ CONFIG = [api_key |-> TRUE, model |-> TRUE, base_url |-> TRUE]
    /\ grouping = [kind |-> "free", k |-> 0]
    /\ client = "None"
    /\ pc = "returned"
    /\ remaining_changes = <<>>
    /\ batch_size = 0
    /\ current_batch = <<>>
    /\ all_results = <<>>
    /\ result = <<>>
    /\ err = "none"
    /\ ncalls = 0
    /\ last = NoCall
    /\ first = NoCall
    /\ batch_mode = FALSE
    /\ okBatches = <<>>

\* lines 56-62
UInit ==
    /\ scope = "unstaged"
    /\ \E m \in 0..MaxFiles : \E u \in 0..(MaxFiles - m) :
         /\ modified_files = SubSeq(ScanPaths, 1, m)
         /\ untracked_files = SubSeq(ScanPaths, m + 1, m + u)
    /\ diff_index = <<>>
    /\ scanned = 0
    /\ scan_changes = <<>>
    /\ warnings = <<>>
    /\ observed = <<>>
    /\ scan_pc = "scanning"

\* UnstagedIteration with the try of line 65 around the whole loop: the
\* first exception ends the scan
UnstagedIteration_Aborts(found) ==
    LET file_path == ScanList[scanned + 1]
        tracked == file_path \in Range(modified_files)
        handled == IF tracked THEN HandleModifiedFile(file_path, found)
                   ELSE HandleUntrackedFile(file_path, found)
    IN  /\ observed' = Append(observed, [file |-> file_path, tracked |-> tracked,
                                          found |-> found])
        /\ IF handled.raised
           THEN /\ warnings' = Append(warnings, Warning(file_path, handled.detail))
                /\ scan_changes' = scan_changes
                /\ scanned' = Len(ScanList)
           ELSE /\ scan_changes' = Append(scan_changes,
                     Change(file_path, handled.status, handled.diff,
                            UnstagedInsertions(handled.diff),
                            UnstagedDeletions(handled.diff)))
                /\ warnings' = warnings
                /\ scanned' = scanned + 1

\* lines 64-100, one iteration, for what the iteration finds
UnstagedIteration(found) ==
    LET file_path == ScanList[scanned + 1]
        tracked == file_path \in Range(modified_files)
        handled == IF tracked THEN HandleModifiedFile(file_path, found)
                   ELSE HandleUntrackedFile(file_path, found)
    IN  /\ observed' = Append(observed, [file |-> file_path, tracked |-> tracked,
                                          found |-> found])
        /\ IF handled.raised
           THEN /\ warnings' = Append(warnings, Warning(file_path, handled.detail))
                /\ scan_changes' = scan_changes
           ELSE /\ scan_changes' = Append(scan_changes,
                     Change(file_path, handled.status, handled.diff,
                            UnstagedInsertions(handled.diff),
                            UnstagedDeletions(handled.diff)))
                /\ warnings' = warnings
        /\ scanned' = scanned + 1

\* lines 64-100 for a file of modified_files
UnstagedTracked ==
    /\ scope = "unstaged"
    /\ scan_pc = "scanning"
    /\ scanned < Len(ScanList)
    /\ ScanList[scanned + 1] \in Range(modified_files)
    /\ \E found \in TrackedFinds : UnstagedIteration(found)
    /\ UNCHANGED <<scope, modified_files, untracked_files, diff_index, scan_pc>>
    /\ UNCHANGED <<avars, ovars>>

\* lines 64-100 for a file of untracked_files
UnstagedUntracked ==
    /\ scope = "unstaged"
    /\ scan_pc = "scanning"
    /\ scanned < Len(ScanList)
    /\ ScanList[scanned + 1] \notin Range(modified_files)
    /\ \E found \in UntrackedFinds : UnstagedIteration(found)
    /\ UNCHANGED <<scope, modified_files, untracked_files, diff_index, scan_pc>>
    /\ UNCHANGED <<avars, ovars>>

\* line 102
UnstagedReturn ==
    /\ scope = "unstaged"
    /\ scan_pc = "scanning"
    /\ scanned = Len(ScanList)
    /\ scan_pc' = "returned"
    /\ UNCHANGED <<scope, modified_files, untracked_files, diff_index, scanned,
                   scan_changes, warnings, observed>>
    /\ UNCHANGED <<avars, ovars>>

UNext ==
    \/ UnstagedTracked
    \/ UnstagedUntracked
    \/ UnstagedReturn

InitUnstaged == UInit /\ AIdle /\ OIdle

SpecUnstaged == InitUnstaged /\ [][UNext]_vars

----------------------------------------------------------------------------
(* GitOperations.get_staged_changes *)

MaxStaged == 2      \* most entries of the staged diff in one staged scan

NoBlob == [none |-> TRUE, data |-> <<>>]
Blob(data) == [none |-> FALSE, data |-> data]

\* blob.size: the number of bytes
BlobSize(blob) == Len(blob.data)

\* the path a renamed file is staged under
RenamedPath(path) == <<"n">> \o path

\* the entries repo.index.diff can hold for a path: a deleted file (with or
\* without its old blob), a new file (with or without its blob), a modified
\* file, and a renamed file (git detects renames: a_path is the old path,
\* b_path the new one, and neither new_file nor deleted_file is set)
DiffEntries(path) ==
    { [a_path |-> path, b_path |-> RenamedPath(path), deleted_file |-> FALSE,
       new_file |-> FALSE, a_blob |-> Blob(<<"h", NL>>), b_blob |-> Blob(<<"h", NL>>)] }
    \cup
    { [a_path |-> path, b_path |-> path, deleted_file |-> TRUE, new_file |-> FALSE,
       a_blob |-> a, b_blob |-> NoBlob] : a \in {NoBlob, Blob(<<"h", "h", NL>>)} }
    \cup { [a_path |-> path, b_path |-> path, deleted_file |-> FALSE, new_file |-> TRUE,
            a_blob |-> NoBlob, b_blob |-> b] : b \in {NoBlob, Blob(<<"h", NL>>)} }
    \cup { [a_path |-> path, b_path |-> path, deleted_file |-> FALSE, new_file |-> FALSE,
            a_blob |-> Blob(<<"h", NL>>), b_blob |-> Blob(<<"h", "h", NL>>)] }

Num(n) == [dash |-> FALSE, n |-> n]
Dash == [dash |-> TRUE, n |-> 0]

\* what one iteration finds: the value of b_blob.is_binary (git's Blob may not
\* have the attribute), the outcome of open().read() of the working file, of
\* git diff --cached and of git diff --cached --numstat (already split)
NothingFound ==
    [is_binary |-> "False", open |-> "ok", bytes |-> <<>>,
     git_diff |-> "ok", diff |-> <<>>, numstat |-> "ok", stats |-> <<>>]

StagedFinds(entry) ==
    IF entry.deleted_file THEN { NothingFound }
    ELSE IF entry.new_file
    THEN (IF entry.b_blob.none THEN {}
          ELSE { [NothingFound EXCEPT !.is_binary = v] : v \in {"True", "AttributeError"} })
         \cup { [NothingFound EXCEPT !.bytes = b] :
                  b \in { <<>>, <<"h", NL>>, <<"h", NL, "h">>, <<"h", BAD>> } }
         \cup { [NothingFound EXCEPT !.open = "IOError"] }
    ELSE { [NothingFound EXCEPT !.git_diff = g] : g \in {"GitCommandError", "Exception"} }
         \cup { [NothingFound EXCEPT !.diff = d, !.stats = st] :
                  d \in DiffTexts \ {<<>>},
                  st \in { <<>>, <<Num(1), Num(1)>>, <<Dash, Dash>> } }
         \cup { [NothingFound EXCEPT !.diff = d, !.numstat = "GitCommandError"] :
                  d \in DiffTexts \ {<<>>} }

ErrorReading(detail) == <<"[", "Error reading file: ", detail, "]">>
ErrorGettingDiff(detail) == <<"[", "Error getting diff: ", detail, "]">>
UnexpectedError(detail) == <<"[", "Unexpected error: ", detail, "]">>

\* line 167: diff.b_path or diff.a_path
EntryFile(entry) == IF entry.b_path # <<>> THEN entry.b_path ELSE entry.a_path

\* lines 123-171: the Change appended for one entry of the staged diff.
\* Lines 125-126 start both counts at 0 (git's Diff has no such attributes).
StagedChange(diff, found) ==
    LET file == EntryFile(diff) IN
    IF diff.deleted_file
    THEN Change(file, "deleted", DELETED_MESSAGE, 0,
                IF diff.a_blob.none THEN 0 ELSE BlobSize(diff.a_blob))
    ELSE IF diff.new_file
    THEN IF ~diff.b_blob.none /\ found.is_binary = "AttributeError"
         THEN Change(file, "error", UnexpectedError("is_binary"), 0, 0)
         ELSE IF ~diff.b_blob.none /\ found.is_binary = "True"
         THEN Change(file, "new file (binary)", BINARY_MESSAGE, 0, 0)
         ELSE IF found.open # "ok"
         THEN Change(file, "new file", ErrorReading(found.open), 0, 0)
         ELSE IF BAD \in Range(found.bytes)
         THEN Change(file, "error", UnexpectedError("UnicodeDecodeError"), 0, 0)
         ELSE Change(file, "new file", found.bytes, Len(SplitLines(found.bytes)), 0)
    ELSE IF found.git_diff = "Exception"
         THEN Change(file, "error", UnexpectedError(found.git_diff), 0, 0)
         ELSE IF found.git_diff = "GitCommandError"
         THEN Change(file, "modified", ErrorGettingDiff(found.git_diff), 0, 0)
         ELSE IF found.numstat # "ok"
         THEN Change(file, "modified", ErrorGettingDiff(found.numstat), 0, 0)
         ELSE IF Len(found.stats) >= 2
         THEN Change(file, "modified", found.diff,
                     IF found.stats[1].dash THEN 0 ELSE found.stats[1].n,
                     IF found.stats[2].dash THEN 0 ELSE found.stats[2].n)
         ELSE Change(file, "modified", found.diff, 0, 0)

\* lines 119-120
SInit ==
    /\ scope = "staged"
    /\ modified_files = <<>>
    /\ untracked_files = <<>>
    /\ \E n \in 0..MaxStaged :
         diff_index \in { d \in [1..n -> UNION { DiffEntries(ScanPaths[i]) : i \in 1..n }] :
                            \A i \in 1..n : d[i] \in DiffEntries(ScanPaths[i]) }
    /\ scanned = 0
    /\ scan_changes = <<>>
    /\ warnings = <<>>
    /\ observed = <<>>
    /\ scan_pc = "scanning"

\* lines 122-171, one iteration
StagedEntry ==
    /\ scope = "staged"
    /\ scan_pc = "scanning"
    /\ scanned < Len(diff_index)
    /\ LET diff == diff_index[scanned + 1] IN
         \E found \in StagedFinds(diff) :
           /\ scan_changes' = Append(scan_changes, StagedChange(diff, found))
           /\ observed' = Append(observed, [file |-> EntryFile(diff), tracked |-> TRUE,
                                             found |-> found])
    /\ scanned' = scanned + 1
    /\ UNCHANGED <<scope, modified_files, untracked_files, diff_index, warnings, scan_pc>>
    /\ UNCHANGED <<avars, ovars>>

\* line 173
StagedReturn ==
    /\ scope = "staged"
    /\ scan_pc = "scanning"
    /\ scanned = Len(diff_index)
    /\ scan_pc' = "returned"
    /\ UNCHANGED <<scope, modified_files, untracked_files, diff_index, scanned,
                   scan_changes, warnings, observed>>
    /\ UNCHANGED <<avars, ovars>>

SNext ==
    \/ StagedEntry
    \/ StagedReturn

InitStaged == SInit /\ AIdle /\ OIdle

SpecStaged == InitStaged /\ [][SNext]_vars

\* either scan
InitScan == InitUnstaged \/ InitStaged

NextScan ==
    \/ UnstagedTracked
    \/ UnstagedUntracked
    \/ UnstagedReturn
    \/ StagedEntry
    \/ StagedReturn

SpecScan == InitScan /\ [][NextScan]_vars

----------------------------------------------------------------------------
(* cli() and GitCommitAssistant.run: src/aicmt/cli.py.                     *)
(*                                                                         *)
(* Each operation run calls is one step that returns or raises; a raised   *)
(* exception stays in exc until the innermost try statement around the     *)
(* raising line whose except clause matches it takes the next step.        *)

MaxGroups == 2

Event(op, g, e) == [op |-> op, group |-> g, exc |-> e]

\* ValueError and the other subclasses of Exception; KeyboardInterrupt and
\* SystemExit derive from BaseException only
IsException(e) == e \in {"ValueError", "Exception"}

\* the positions inside the try statement of run (lines 20-75)
InRun == {"scan", "check", "approve", "stage", "commit", "confirm_push", "push"}

Group(files, commit_message) == [files |-> files, commit_message |-> commit_message]

\* the groups the analysis may return: one without files, one with one file,
\* one with two files and another message
Groups ==
    { Group(<<>>, "m1"), Group(<<"a.t">>, "m1"), Group(<<"a.t", "b.t">>, "m2") }

GroupLists == UNION { [1..n -> Groups] : n \in 0..MaxGroups }

\* Confirm.ask returns True ("y") or False ("n"), or raises EOFError when
\* no answer can be read
Answers == {"y", "n", "EOFError"}

\* display_commit_groups: the groups accepted, in the order shown; a group
\* is accepted by the answer yes, and by default when no answer can be read
RECURSIVE Accepted(_, _, _)
Accepted(groups, asked, i) ==
    IF i > Len(groups) THEN <<>>
    ELSE (IF asked[i] # "n" THEN <<groups[i]>> ELSE <<>>)
         \o Accepted(groups, asked, i + 1)

\* stage_files when its loop completed k iterations: every file goes to the
\* index, by index.remove or by index.add
stage_files(files, k) == index \cup { files[i] : i \in 1..k }

\* commit_changes: repo.index.commit(message) commits what the index holds
commit_changes(message) == Append(commits, [message |-> message, files |-> index])

repo == <<index, commits, pushed>>
plan == <<run_changes, commit_groups, approved_groups, answers, confirmed>>

Raises(op, g, e) ==
    /\ exc' = e
    /\ trace' = Append(trace, Event(op, g, e))

Returns(op, g) ==
    /\ exc' = exc
    /\ trace' = Append(trace, Event(op, g, "none"))

\* sys.exit(code) raises SystemExit
sys_exit(code, how) ==
    /\ exc' = "SystemExit"
    /\ exit_code' = code
    /\ ended_by' = how

\* CLIInterface.exit_program
exit_program(message) ==
    /\ output' = IF message # "" THEN Append(output, message) ELSE output
    /\ sys_exit(0, "exit_program")

\* the loop of line 56 moves to its next group, or ends
NextGroup ==
    /\ gi' = gi + 1
    /\ run_pc' = IF gi < Len(approved_groups) THEN "stage" ELSE "confirm_push"

RInit ==
    /\ argv \in {"run", "help", "version", "invalid"}
    /\ run_pc = "parse_args"
    /\ exc = "none"
    /\ exit_code = 0
    /\ ended_by = "none"
    /\ output = <<>>
    /\ run_changes = 0
    /\ commit_groups = <<>>
    /\ approved_groups = <<>>
    /\ answers = <<>>
    /\ confirmed = "none"
    /\ gi = 0
    /\ index = {}
    /\ commits = <<>>
    /\ pushed = 0
    /\ trace = <<>>

\* lines 87-91: argparse prints the help or the version and exits 0, exits 2
\* on arguments it does not know
ParseArgs ==
    /\ run_pc = "parse_args" /\ exc = "none"
    /\ \/ /\ argv = "run"
          /\ run_pc' = "construct"
          /\ Returns("parse_args", 0)
          /\ UNCHANGED <<exit_code, ended_by>>
       \/ /\ argv \in {"help", "version", "invalid"}
          /\ trace' = Append(trace, Event("parse_args", 0, "SystemExit"))
          /\ sys_exit(IF argv = "invalid" THEN 2 ELSE 0, "argparse")
          /\ run_pc' = run_pc
       \/ /\ Raises("parse_args", 0, "KeyboardInterrupt")
          /\ UNCHANGED <<run_pc, exit_code, ended_by>>
    /\ UNCHANGED <<argv, output, plan, gi, repo>>
    /\ UNCHANGED <<avars, svars, vvars>>

\* line 95: GitCommitAssistant() builds GitOperations, AIAnalyzer (which
\* loads the configuration) and CLIInterface
Construct ==
    /\ run_pc = "construct" /\ exc = "none"
    /\ \/ /\ run_pc' = "scan"
          /\ Returns("construct", 0)
       \/ /\ \E e \in {"ValueError", "Exception", "KeyboardInterrupt"} :
                Raises("construct", 0, e)
          /\ run_pc' = run_pc
    /\ UNCHANGED <<argv, exit_code, ended_by, output, plan, gi, repo>>
    /\ UNCHANGED <<avars, svars, vvars>>

\* lines 21-29
Scan ==
    /\ run_pc = "scan" /\ exc = "none"
    /\ \/ /\ \E n \in {0, 1, 2} : run_changes' = n
          /\ run_pc' = "check"
          /\ Returns("scan", 0)
       \/ /\ \E e \in {"Exception", "KeyboardInterrupt"} : Raises("scan", 0, e)
          /\ UNCHANGED <<run_pc, run_changes>>
    /\ UNCHANGED <<argv, exit_code, ended_by, output, commit_groups,
                   approved_groups, answers, confirmed, gi, repo>>
    /\ UNCHANGED <<avars, svars, vvars>>

\* NoChanges with an exit_program that returns, so that run goes on
\* to the analysis of the empty list
NoChanges_Continues ==
    /\ run_pc = "check" /\ exc = "none"
    /\ run_changes = 0
    /\ output' = Append(output, "No changes to commit.")
    /\ run_pc' = "approve"
    /\ trace' = Append(trace, Event("analyze", 0, "none"))
    /\ UNCHANGED <<argv, exc, exit_code, ended_by, plan, gi, repo>>
    /\ UNCHANGED <<avars, svars, vvars>>

\* lines 30-32
NoChanges ==
    /\ run_pc = "check" /\ exc = "none"
    /\ run_changes = 0
    /\ exit_program("No changes to commit.")
    /\ UNCHANGED <<argv, run_pc, plan, gi, repo, trace>>
    /\ UNCHANGED <<avars, svars, vvars>>

\* lines 34-46
Analyze ==
    /\ run_pc = "check" /\ exc = "none"
    /\ run_changes # 0
    /\ \/ /\ \E groups \in GroupLists : commit_groups' = groups
          /\ run_pc' = "approve"
          /\ Returns("analyze", 0)
       \/ /\ \E e \in {"ValueError", "KeyboardInterrupt"} : Raises("analyze", 0, e)
          /\ UNCHANGED <<run_pc, commit_groups>>
    /\ UNCHANGED <<argv, exit_code, ended_by, output, run_changes,
                   approved_groups, answers, confirmed, gi, repo>>
    /\ UNCHANGED <<avars, svars, vvars>>

\* Approve with a display_commit_groups that returns every group shown
Approve_KeepsAll ==
    /\ run_pc = "approve" /\ exc = "none"
    /\ \/ /\ \E asked \in [1..Len(commit_groups) -> Answers] :
                /\ answers' = asked
                /\ approved_groups' = commit_groups
          /\ gi' = 1
          /\ run_pc' = IF approved_groups' # <<>> THEN "stage" ELSE "confirm_push"
          /\ Returns("approve", 0)
       \/ /\ \E e \in {"Exception", "KeyboardInterrupt"} : Raises("approve", 0, e)
          /\ UNCHANGED <<run_pc, approved_groups, answers, gi>>
    /\ UNCHANGED <<argv, exit_code, ended_by, output, run_changes,
                   commit_groups, confirmed, repo>>
    /\ UNCHANGED <<avars, svars, vvars>>

\* lines 47-56
Approve ==
    /\ run_pc = "approve" /\ exc = "none"
    /\ \/ /\ \E asked \in [1..Len(commit_groups) -> Answers] :
                /\ answers' = asked
                /\ approved_groups' = Accepted(commit_groups, asked, 1)
          /\ gi' = 1
          /\ run_pc' = IF approved_groups' # <<>> THEN "stage" ELSE "confirm_push"
          /\ Returns("approve", 0)
       \/ /\ \E e \in {"Exception", "KeyboardInterrupt"} : Raises("approve", 0, e)
          /\ UNCHANGED <<run_pc, approved_groups, answers, gi>>
    /\ UNCHANGED <<argv, exit_code, ended_by, output, run_changes,
                   commit_groups, confirmed, repo>>
    /\ UNCHANGED <<avars, svars, vvars>>

\* line 59: stage_files returns when its loop ran over every file; it raises
\* at git status or at one of the files
StageGroup ==
    /\ run_pc = "stage" /\ exc = "none"
    /\ LET files == approved_groups[gi].files
       IN \/ /\ index' = stage_files(files, Len(files))
             /\ run_pc' = "commit"
             /\ Returns("stage", gi)
          \/ /\ \E k \in 0..Len(files) :
                   /\ k < Len(files) \/ files = <<>>
                   /\ index' = stage_files(files, k)
             /\ \E e \in {"Exception", "KeyboardInterrupt"} : Raises("stage", gi, e)
             /\ run_pc' = run_pc
    /\ UNCHANGED <<argv, exit_code, ended_by, output, plan, gi, commits, pushed>>
    /\ UNCHANGED <<avars, svars, vvars>>

\* lines 62-64
CommitGroup ==
    /\ run_pc = "commit" /\ exc = "none"
    /\ \/ /\ commits' = commit_changes(approved_groups[gi].commit_message)
          /\ index' = {}
          /\ output' = Append(output, "Created commit")
          /\ NextGroup
          /\ Returns("commit", gi)
       \/ /\ \E e \in {"Exception", "KeyboardInterrupt"} : Raises("commit", gi, e)
          /\ UNCHANGED <<run_pc, gi, index, commits, output>>
    /\ UNCHANGED <<argv, exit_code, ended_by, plan, pushed>>
    /\ UNCHANGED <<avars, svars, vvars>>

\* CommitFailed with an except clause that ends run with sys.exit(1)
CommitFailed_Exits ==
    /\ run_pc \in {"stage", "commit"}
    /\ IsException(exc)
    /\ output' = Append(output, "Failed to create commit")
    /\ sys_exit(1, "sys.exit")
    /\ UNCHANGED <<argv, run_pc, plan, gi, repo, trace>>
    /\ UNCHANGED <<avars, svars, vvars>>

\* CommitFailed with an except clause that catches BaseException
CommitFailed_CatchesAll ==
    /\ run_pc \in {"stage", "commit"}
    /\ IsException(exc) \/ exc = "KeyboardInterrupt"
    /\ output' = Append(output, "Failed to create commit")
    /\ exc' = "none"
    /\ NextGroup
    /\ UNCHANGED <<argv, exit_code, ended_by, plan, repo, trace>>
    /\ UNCHANGED <<avars, svars, vvars>>

\* lines 65-67: except Exception of the loop body
CommitFailed ==
    /\ run_pc \in {"stage", "commit"}
    /\ IsException(exc)
    /\ output' = Append(output, "Failed to create commit")
    /\ exc' = "none"
    /\ NextGroup
    /\ UNCHANGED <<argv, exit_code, ended_by, plan, repo, trace>>
    /\ UNCHANGED <<avars, svars, vvars>>

\* ConfirmPush with a confirm_push that answers yes when no answer can be read
ConfirmPush_DefaultsYes ==
    /\ run_pc = "confirm_push" /\ exc = "none"
    /\ \/ /\ \E answer \in Answers :
                /\ confirmed' = answer
                /\ run_pc' = IF answer # "n" THEN "push" ELSE "returned"
          /\ Returns("confirm_push", 0)
       \/ /\ Raises("confirm_push", 0, "KeyboardInterrupt")
          /\ UNCHANGED <<run_pc, confirmed>>
    /\ UNCHANGED <<argv, exit_code, ended_by, output, run_changes, commit_groups,
                   approved_groups, answers, gi, repo>>
    /\ UNCHANGED <<avars, svars, vvars>>

\* line 70: confirm_push returns the answer, and False when none can be read
ConfirmPush ==
    /\ run_pc = "confirm_push" /\ exc = "none"
    /\ \/ /\ \E answer \in Answers :
                /\ confirmed' = answer
                /\ run_pc' = IF answer = "y" THEN "push" ELSE "returned"
          /\ Returns("confirm_push", 0)
       \/ /\ Raises("confirm_push", 0, "KeyboardInterrupt")
          /\ UNCHANGED <<run_pc, confirmed>>
    /\ UNCHANGED <<argv, exit_code, ended_by, output, run_changes, commit_groups,
                   approved_groups, answers, gi, repo>>
    /\ UNCHANGED <<avars, svars, vvars>>

\* lines 72-73
Push ==
    /\ run_pc = "push" /\ exc = "none"
    /\ \/ /\ pushed' = Len(commits)
          /\ output' = Append(output, "Successfully pushed all commits!")
          /\ run_pc' = "returned"
          /\ Returns("push", 0)
       \/ /\ \E e \in {"Exception", "KeyboardInterrupt"} : Raises("push", 0, e)
          /\ UNCHANGED <<run_pc, pushed, output>>
    /\ UNCHANGED <<argv, exit_code, ended_by, plan, gi, index, commits>>
    /\ UNCHANGED <<avars, svars, vvars>>

\* lines 74-75: except Exception around push_changes
PushFailed ==
    /\ run_pc = "push"
    /\ IsException(exc)
    /\ output' = Append(output, "Failed to push commits")
    /\ exc' = "none"
    /\ run_pc' = "returned"
    /\ UNCHANGED <<argv, exit_code, ended_by, plan, gi, repo, trace>>
    /\ UNCHANGED <<avars, svars, vvars>>

\* lines 77-78: except KeyboardInterrupt of run
RunInterrupted ==
    /\ run_pc \in InRun
    /\ exc = "KeyboardInterrupt"
    /\ exit_program("Operation cancelled by user.")
    /\ UNCHANGED <<argv, run_pc, plan, gi, repo, trace>>
    /\ UNCHANGED <<avars, svars, vvars>>

\* RunFailed ending the process with code 0
RunFailed_ExitsZero ==
    /\ run_pc \in InRun \ {"stage", "commit", "push"}
    /\ IsException(exc)
    /\ output' = Append(output, "Error")
    /\ sys_exit(0, "sys.exit")
    /\ UNCHANGED <<argv, run_pc, plan, gi, repo, trace>>
    /\ UNCHANGED <<avars, svars, vvars>>

\* lines 79-81: except Exception of run, for what no inner try caught
RunFailed ==
    /\ run_pc \in InRun \ {"stage", "commit", "push"}
    /\ IsException(exc)
    /\ output' = Append(output, "Error")
    /\ sys_exit(1, "sys.exit")
    /\ UNCHANGED <<argv, run_pc, plan, gi, repo, trace>>
    /\ UNCHANGED <<avars, svars, vvars>>

\* lines 97-100
CliValueError ==
    /\ run_pc = "construct"
    /\ exc = "ValueError"
    /\ output' = Append(output, "Configuration Error")
    /\ sys_exit(1, "sys.exit")
    /\ UNCHANGED <<argv, run_pc, plan, gi, repo, trace>>
    /\ UNCHANGED <<avars, svars, vvars>>

\* lines 101-104
CliException ==
    /\ run_pc = "construct"
    /\ IsException(exc) /\ exc # "ValueError"
    /\ output' = Append(output, "Runtime Error")
    /\ sys_exit(1, "sys.exit")
    /\ UNCHANGED <<argv, run_pc, plan, gi, repo, trace>>
    /\ UNCHANGED <<avars, svars, vvars>>

\* lines 105-107
CliInterrupted ==
    /\ run_pc \in {"parse_args", "construct"}
    /\ exc = "KeyboardInterrupt"
    /\ output' = Append(output, "Program interrupted by user")
    /\ sys_exit(1, "sys.exit")
    /\ UNCHANGED <<argv, run_pc, plan, gi, repo, trace>>
    /\ UNCHANGED <<avars, svars, vvars>>

\* run returned, and cli returns after line 96: the process ends with code 0
CliReturn ==
    /\ run_pc = "returned"
    /\ run_pc' = "exited"
    /\ exit_code' = 0
    /\ ended_by' = "return"
    /\ UNCHANGED <<argv, exc, output, plan, gi, repo, trace>>
    /\ UNCHANGED <<avars, svars, vvars>>

\* no except clause of run or of cli matches SystemExit: the process ends
\* with the code given to sys.exit
ProcessExit ==
    /\ run_pc # "exited"
    /\ exc = "SystemExit"
    /\ run_pc' = "exited"
    /\ UNCHANGED <<argv, exc, exit_code, ended_by, output, plan, gi, repo, trace>>
    /\ UNCHANGED <<avars, svars, vvars>>

RNext ==
    \/ ParseArgs
    \/ Construct
    \/ Scan
    \/ NoChanges
    \/ Analyze
    \/ Approve
    \/ StageGroup
    \/ CommitGroup
    \/ CommitFailed
    \/ ConfirmPush
    \/ Push
    \/ PushFailed
    \/ RunInterrupted
    \/ RunFailed
    \/ CliValueError
    \/ CliException
    \/ CliInterrupted
    \/ CliReturn
    \/ ProcessExit

InitRun == RInit /\ AIdle /\ ScanIdle /\ ValidateIdle

SpecRun == InitRun /\ [][RNext]_vars

----------------------------------------------------------------------------
(* AIAnalyzer._validate_and_format_result: src/aicmt/ai_analyzer.py.       *)
(*                                                                         *)
(* A parsed JSON value carries its Python type; a dict is the list of its  *)
(* key / value pairs in insertion order.                                   *)

MaxElems == 2

JNull == [type |-> "null"]
JStr(s) == [type |-> "str", str |-> s]
JList(items) == [type |-> "list", items |-> items]
JDict(pairs) == [type |-> "dict", pairs |-> pairs]
Pair(key, value) == [key |-> key, value |-> value]

\* key in d
Has(d, key) == \E i \in 1..Len(d.pairs) : d.pairs[i].key = key

\* d[key]
Get(d, key) ==
    LET i == CHOOSE j \in 1..Len(d.pairs) : d.pairs[j].key = key
    IN d.pairs[i].value

\* d[key] = value
Set(d, key, value) ==
    IF Has(d, key)
    THEN JDict([i \in 1..Len(d.pairs) |->
                  IF d.pairs[i].key = key THEN Pair(key, value) ELSE d.pairs[i]])
    ELSE JDict(Append(d.pairs, Pair(key, value)))

\* lines 163-183: one iteration of the loop over result["commit_groups"]
FormatGroup(group) ==
    IF group.type # "dict" THEN group
    ELSE
      LET g1 == IF Has(group, "files") THEN group
                ELSE Set(group, "files", JList(<<>>))
          g2 == IF Has(g1, "commit_message") THEN g1
                ELSE Set(g1, "commit_message", JStr("chore: update files"))
          g3 == IF Has(g2, "description") THEN g2
                ELSE Set(g2, "description", JStr("Update files"))
          files == Get(g3, "files")
      IN IF files.type = "list" THEN g3
         ELSE IF files.type = "str" THEN Set(g3, "files", JList(<<files>>))
         ELSE Set(g3, "files", JList(<<>>))

_validate_and_format_result(res) ==
    IF res.type # "dict"
    THEN [state |-> "raised", detail |-> "The returned content is not a JSON object"]
    ELSE IF ~ Has(res, "commit_groups")
    THEN [state |-> "raised", detail |-> "missing required commit_groups field"]
    ELSE IF Get(res, "commit_groups").type # "list"
    THEN [state |-> "raised", detail |-> "commit_groups must be an array"]
    ELSE LET groups == Get(res, "commit_groups").items
         IN [state |-> "returned",
             value |-> [i \in 1..Len(groups) |-> FormatGroup(groups[i])]]

\* what the model may send under "files"
FilesValues == {JList(<<>>), JList(<<JStr("a.t")>>), JStr("a.t"), JNull}

Optional(key, values) == {<<>>} \cup { <<Pair(key, v)>> : v \in values }

GroupValues ==
    { JDict(f \o m \o d) :
        f \in Optional("files", FilesValues),
        m \in Optional("commit_message", {JStr("m1")}),
        d \in Optional("description", {JStr("d1")}) }

\* what the model may send as one element of commit_groups
ElementValues == GroupValues \cup {JStr("x"), JNull}

Responses ==
    {JStr("x"), JList(<<>>), JDict(<<>>),
     JDict(<<Pair("commit_groups", JStr("x"))>>),
     JDict(<<Pair("commit_groups", JNull)>>)}
    \cup { JDict(<<Pair("commit_groups", JList(items))>>) :
             items \in UNION { [1..n -> ElementValues] : n \in 0..MaxElems } }

VInit ==
    /\ response \in Responses
    /\ validated = [state |-> "pending"]

\* line 69: process_batch hands json.loads(content) to the validation
Validate ==
    /\ validated.state = "pending"
    /\ validated' = _validate_and_format_result(response)
    /\ UNCHANGED response
    /\ UNCHANGED <<avars, svars, rvars>>

VNext == Validate

InitValidate == VInit /\ AIdle /\ ScanIdle /\ RunIdle

SpecValidate == InitValidate /\ [][VNext]_vars

----------------------------------------------------------------------------
(* Properties of the Batch Planner *)

Finished == pc \in {"returned", "raised"}

OtherFailure(call) == call.outcome \in {"api_error", "bad_response"}

\* C1: when analyze_changes returns normally after switching to batch mode,
\* every input change was a member of at least one batch whose Grouping
\* Client call succeeded (no change is dropped).
C1_NoChangeDropped ==
    (pc = "returned" /\ batch_mode) =>
        \A i \in 1..Len(changes) :
            \E b \in 1..Len(okBatches) : changes[i] \in Range(okBatches[b])

\* C2: no input change is a member of two different batches whose Grouping
\* Client call succeeded (no change is processed twice).
C2_NoChangeTwice ==
    \A i \in 1..Len(changes) :
        \A b, c \in 1..Len(okBatches) :
            (changes[i] \in Range(okBatches[b]) /\ changes[i] \in Range(okBatches[c]))
                => b = c

\* C3: with a Grouping Client that fails with a context-length error on
\* every batch, analyze_changes on a non-empty change list eventually raises
\* the fatal "Even a single change exceeds the model's context length" error.
C3_FatalFloor ==
    (grouping = [kind |-> "limit", k |-> 0] /\ changes # <<>> /\ ConfigOk)
        => <>(pc = "raised" /\ err = "single_change_exceeds")

\* C4: with a Grouping Client that fails with a context-length error exactly
\* on the batches of more than k changes (k >= 1), analyze_changes
\* terminates, and every batch whose result is accepted has at most k changes.
C4_Convergence ==
    (grouping.kind = "limit" /\ grouping.k >= 1)
        => /\ <>Finished
           /\ [](\A b \in 1..Len(okBatches) : Len(okBatches[b]) <= grouping.k)

\* C5: a Grouping Client failure other than a context-length error ends
\* analyze_changes at once: it has raised, nothing is returned, and no
\* further Grouping Client call is made.
C5_OtherFailureAborts ==
    /\ [](OtherFailure(last) =>
            /\ pc = "raised"
            /\ err \in {"api", "response"}
            /\ result = <<>>)
    /\ [][OtherFailure(last) => UNCHANGED <<ncalls, last, result, pc>>]_vars

\* a failure that came after an earlier batch had succeeded
C5_Witness == OtherFailure(last) /\ okBatches # <<>> /\ all_results # <<>>

\* C6: when the first call, on the whole change list, succeeds, it is the
\* only call, it was given all changes in scan order, its groups are the
\* return value, and batch mode is never entered.
C6_FastPath ==
    first.outcome = "ok" =>
        /\ pc = "returned"
        /\ ncalls = 1
        /\ first.batch = changes
        /\ result = first.groups
        /\ ~batch_mode
        /\ batch_size = 0 /\ remaining_changes = <<>> /\ all_results = <<>>

C6_Witness == first.outcome = "ok" /\ Len(changes) >= 2 /\ Len(result) >= 2

\* C7: on an empty change list analyze_changes returns an empty list, the
\* client is not initialised and no Grouping Client call is made.
C7_EmptyList ==
    (changes = <<>> /\ pc # "start") =>
        /\ pc = "returned"
        /\ result = <<>>
        /\ client = "None"
        /\ ncalls = 0

C7_Witness == changes = <<>> /\ pc = "returned" /\ ConfigOk

----------------------------------------------------------------------------
(* Properties of the Repository Scanner *)

RECURSIVE SelectFiles(_, _)
\* the files of the observations whose failing flag is `failing`, in order
SelectFiles(obs, failing) ==
    IF obs = <<>> THEN <<>>
    ELSE (IF Head(obs).failing = failing THEN << Head(obs).file >> ELSE <<>>)
         \o SelectFiles(Tail(obs), failing)

\* processing the file raised an unexpected exception: git diff failed on a
\* tracked file that is still on disk (or failed in another way), or an
\* existing untracked file could not be opened
UnstagedFails(o) ==
    IF o.tracked
    THEN o.found.git_diff = "Exception" \/ (o.found.git_diff = "GitCommandError" /\ o.found.exists)
    ELSE o.found.is_file /\ o.found.open # "ok"

Flagged == [i \in 1..Len(observed) |->
              [file |-> observed[i].file, failing |-> UnstagedFails(observed[i])]]

StagedFails(diff, found) ==
    \/ /\ diff.new_file
       /\ diff.b_blob.none \/ found.is_binary = "False"
       /\ found.open # "ok"
    \/ /\ ~diff.new_file /\ ~diff.deleted_file
       /\ found.git_diff = "GitCommandError"

\* C9: get_staged_changes returns one Change per staged diff entry, in order,
\* and an entry whose processing failed is represented with status "error"
\* and a diff text that describes the failure.
C9_StagedErrorPolicy ==
    scope = "staged" =>
        /\ Len(scan_changes) = scanned
        /\ \A i \in 1..Len(scan_changes) :
             /\ scan_changes[i].file = EntryFile(diff_index[i])
             /\ StagedFails(diff_index[i], observed[i].found) =>
                  /\ scan_changes[i].status = "error"
                  /\ StartsWith(scan_changes[i].diff, "[")

\* the untracked file is a regular, readable file that decodes as text
TextFile(o) ==
    /\ ~o.tracked
    /\ o.found.is_file /\ o.found.open = "ok"
    /\ NUL \notin Range(Take(o.found.bytes, ProbeCap))
    /\ BAD \notin Range(o.found.bytes)

\* C10: an untracked regular file that decodes as text yields a Change with
\* status "new file", the full content as diff, insertions equal to the
\* file's line count and deletions 0.
C10_NewTextFile ==
    scope = "unstaged" =>
        \A i \in 1..Len(observed) :
            TextFile(observed[i]) =>
                \E j \in 1..Len(scan_changes) :
                    /\ scan_changes[j].file = observed[i].file
                    /\ scan_changes[j].status = "new file"
                    /\ scan_changes[j].diff = observed[i].found.bytes
                    /\ scan_changes[j].insertions = Len(SplitLines(observed[i].found.bytes))
                    /\ scan_changes[j].deletions = 0

\* the line is a file-header line of a unified diff: it starts with three ch
IsHeader(line, ch) == Len(line) >= 3 /\ line[1] = ch /\ line[2] = ch /\ line[3] = ch

RECURSIVE CountChanged(_, _)
\* the lines starting with ch that are no file-header line
CountChanged(lines, ch) ==
    IF lines = <<>> THEN 0
    ELSE (IF StartsWith(Head(lines), ch) /\ ~IsHeader(Head(lines), ch) THEN 1 ELSE 0)
         + CountChanged(Tail(lines), ch)

\* the Changes the scan made for a file
ChangesOf(file) == { j \in 1..Len(scan_changes) : scan_changes[j].file = file }
WarningsOf(file) == { j \in 1..Len(warnings) : warnings[j].file = file }

\* C11: for every Change of the unstaged scan whose diff is unified-diff text
\* (not a sentinel), insertions is the number of lines starting with "+"
\* without the "+++" header line, deletions the number of lines starting with
\* "-" without the "---" header line.
C11_StatAccuracy ==
    scope = "unstaged" =>
        \A i \in 1..Len(observed) :
            (observed[i].tracked /\ observed[i].found.git_diff = "ok"
               /\ observed[i].found.diff # <<>>) =>
                \A j \in ChangesOf(observed[i].file) :
                    /\ scan_changes[j].insertions
                         = CountChanged(Split(observed[i].found.diff, NL), "+")
                    /\ scan_changes[j].deletions
                         = CountChanged(Split(observed[i].found.diff, NL), "-")

\* C12: when git diff fails on a tracked file of the unstaged scan, a file
\* that is gone from disk has exactly one Change, "deleted" with
\* "[File deleted]", and no warning; a file that is still there has no Change
\* and one warning "Failed to get diff for {path}".
C12_DiffFailure ==
    scope = "unstaged" =>
        \A i \in 1..Len(observed) :
            (observed[i].tracked /\ observed[i].found.git_diff = "GitCommandError") =>
                LET file == observed[i].file IN
                IF ~observed[i].found.exists
                THEN /\ Cardinality(ChangesOf(file)) = 1
                     /\ \A j \in ChangesOf(file) :
                          /\ scan_changes[j].status = "deleted"
                          /\ scan_changes[j].diff = DELETED_MESSAGE
                     /\ WarningsOf(file) = {}
                ELSE /\ ChangesOf(file) = {}
                     /\ Cardinality(WarningsOf(file)) = 1
                     /\ \A j \in WarningsOf(file) :
                          warnings[j].detail = <<"Failed to get diff for ", file>>

\* both cases in one scan
C12_Witness ==
    /\ scope = "unstaged" /\ scan_pc = "returned"
    /\ \E i, k \in 1..Len(observed) :
         /\ observed[i].tracked /\ observed[i].found.git_diff = "GitCommandError"
         /\ ~observed[i].found.exists
         /\ observed[k].tracked /\ observed[k].found.git_diff = "GitCommandError"
         /\ observed[k].found.exists

\* the file is an untracked regular file that could be opened
ReadableFile(o) == ~o.tracked /\ o.found.is_file /\ o.found.open = "ok"

\* C13: an existing untracked file is reported as "new file (binary)" with
\* "[Binary file]" and no counts exactly when a NUL byte is among its first
\* ProbeCap bytes or the whole file does not decode as UTF-8; otherwise it is
\* reported as "new file".
C13_BinaryClassification ==
    scope = "unstaged" =>
        \A i \in 1..Len(observed) :
            ReadableFile(observed[i]) =>
                /\ Cardinality(ChangesOf(observed[i].file)) = 1
                /\ \A j \in ChangesOf(observed[i].file) :
                     IF \/ NUL \in Range(Take(observed[i].found.bytes, ProbeCap))
                        \/ BAD \in Range(observed[i].found.bytes)
                     THEN /\ scan_changes[j].status = "new file (binary)"
                          /\ scan_changes[j].diff = BINARY_MESSAGE
                          /\ scan_changes[j].insertions = 0
                          /\ scan_changes[j].deletions = 0
                     ELSE scan_changes[j].status = "new file"

\* a NUL beyond the probed prefix (text), and bytes that do not decode (binary)
C13_Witness ==
    /\ scope = "unstaged"
    /\ \E i, k \in 1..Len(observed) :
         /\ ReadableFile(observed[i]) /\ NUL \in Range(observed[i].found.bytes)
         /\ \E j \in ChangesOf(observed[i].file) : scan_changes[j].status = "new file"
         /\ ReadableFile(observed[k]) /\ BAD \in Range(observed[k].found.bytes)
         /\ \E j \in ChangesOf(observed[k].file) :
              scan_changes[j].status = "new file (binary)"

\* C14: in both scans, a Change with status "new file (binary)" has the diff
\* "[Binary file]" and a Change with status "deleted" has the diff
\* "[File deleted]".
C14_SentinelInvariant ==
    \A j \in 1..Len(scan_changes) :
        /\ scan_changes[j].status = "new file (binary)" => scan_changes[j].diff = BINARY_MESSAGE
        /\ scan_changes[j].status = "deleted" => scan_changes[j].diff = DELETED_MESSAGE

C14_Witness ==
    /\ scan_pc = "returned"
    /\ \E j, k \in 1..Len(scan_changes) :
         /\ scan_changes[j].status = "new file (binary)"
         /\ scan_changes[k].status = "deleted"

----------------------------------------------------------------------------
(* Properties of cli() and GitCommitAssistant.run *)

Exited == run_pc = "exited"

\* the positions of trace where one of ops was invoked
Invoked(ops) == { i \in 1..Len(trace) : trace[i].op \in ops }

\* the positions of trace where one of ops raised one of excs
RaisedAt(ops, excs) == { i \in Invoked(ops) : trace[i].exc \in excs }

Interrupted == RaisedAt(InRun \cup {"analyze"}, {"KeyboardInterrupt"}) # {}

\* the groups handed to stage_files, in order
Attempted ==
    LET calls == SelectSeq(trace, LAMBDA e : e.op = "stage")
    IN [i \in 1..Len(calls) |-> calls[i].group]

\* the groups whose commit was created, in order
Created ==
    LET calls == SelectSeq(trace, LAMBDA e : e.op = "commit" /\ e.exc = "none")
    IN [i \in 1..Len(calls) |-> calls[i].group]

\* the groups whose staging or commit failed
FailedGroups ==
    { trace[i].group : i \in RaisedAt({"stage", "commit"}, {"ValueError", "Exception"}) }

Reports(message) == Len(SelectSeq(output, LAMBDA m : m = message))

\* C15: when staging or committing an approved group fails, the commits
\* created for earlier groups are kept, the failure is reported, every later
\* approved group is still attempted in order, and run does not exit because
\* of the failure: without an interrupt, run leaves the loop only after
\* stage_files was called for every approved group, and ends only after the
\* push question.
C15_NoRollback ==
    /\ Len(commits) = Len(Created)
    /\ \A i \in 1..Len(commits) :
          commits[i].message = approved_groups[Created[i]].commit_message
    /\ exc = "none" => Reports("Failed to create commit") = Cardinality(FailedGroups)
    /\ \A i \in 1..Len(Attempted) : Attempted[i] = i
    /\ (FailedGroups # {} /\ ~ Interrupted)
          => /\ run_pc \in {"stage", "commit"} \/ Len(Attempted) = Len(approved_groups)
             /\ Exited => Invoked({"confirm_push"}) # {}

\* a run that ended by returning, in which one group failed and a commit was
\* created for another
C15_Witness ==
    /\ Exited /\ ended_by = "return"
    /\ FailedGroups # {}
    /\ commits # <<>>

\* help or version was displayed by parse_args
Displayed == argv \in {"help", "version"} /\ RaisedAt({"parse_args"}, {"SystemExit"}) # {}

\* the scan returned an empty list
ScanEmpty == RaisedAt({"scan"}, {"none"}) # {} /\ run_changes = 0

\* C16: an exception escaping the construction of the assistant, the scan or
\* the analysis makes the process exit with code 1; normal completion (run
\* returned), the display of help or version, and the no-changes case exit
\* with code 0.
C16_ExitCodes ==
    Exited =>
      /\ RaisedAt({"construct", "scan", "analyze"}, {"ValueError", "Exception"}) # {}
            => exit_code = 1
      /\ ended_by = "return" => exit_code = 0
      /\ Displayed => exit_code = 0
      /\ ScanEmpty => exit_code = 0

\* the analysis raised its ValueError and the process has ended
C16_Witness ==
    /\ Exited
    /\ RaisedAt({"analyze"}, {"ValueError"}) # {}

\* C17: when the scan returns no changes, run exits with code 0, and the
\* analyzer, the approval prompt, stage_files, commit_changes and
\* push_changes are never invoked.
C17_NoChangesExit ==
    ScanEmpty =>
      /\ Invoked({"analyze", "approve", "stage", "commit", "push"}) = {}
      /\ run_pc \in {"check", "exited"}
      /\ exc \in {"none", "SystemExit"}
      /\ (Exited \/ exc = "SystemExit") => exit_code = 0 /\ ended_by = "exit_program"

C17_Witness == ScanEmpty /\ Exited

C19_EmptyStage ==
    /\ \A i \in Invoked({"stage"}) :
          approved_groups[trace[i].group].files = <<>> => trace[i].exc # "none"
    /\ \A i \in Invoked({"commit"}) :
          approved_groups[trace[i].group].files # <<>>

----------------------------------------------------------------------------
(* Properties of _validate_and_format_result *)

WellFormedGroup(g) ==
    /\ g.type = "dict"
    /\ Has(g, "files") /\ Get(g, "files").type = "list"
    /\ Has(g, "commit_message")
    /\ Has(g, "description")

\* C20: _validate_and_format_result either raises or returns a list in which
\* every element is a record that has a 'files' field holding a list, a
\* 'commit_message' field and a 'description' field.
C20_RepairOrReject ==
    validated.state = "returned" =>
        \A i \in 1..Len(validated.value) : WellFormedGroup(validated.value[i])

----------------------------------------------------------------------------
(* Properties of the locality extension and of the batch size *)

\* the candidates of this pass: remaining_changes[batch_size:]
Candidates == Drop(remaining_changes, batch_size)

\* the batch as it stood before the pass: remaining_changes[:batch_size]
Snapshot == Take(remaining_changes, batch_size)

\* same directory, or the batch file's filename stem is a substring of the
\* candidate's path
RelatedTo(batch_file, candidate) ==
    \/ DirName(batch_file) = DirName(candidate)
    \/ IsSubstring(Stem(batch_file), candidate)

\* C21: in one extension pass a candidate is absorbed only if it is related
\* to a change of the batch as it stood before the pass (the first batch_size
\* changes); a candidate related only to a change absorbed earlier in the
\* same pass is not absorbed.
C21_SnapshotSemantics ==
    pc = "call" =>
        \A i \in (Len(Snapshot) + 1)..Len(current_batch) :
            \E j \in 1..Len(Snapshot) :
                RelatedTo(Snapshot[j].file, current_batch[i].file)

\* C22: in one extension pass every candidate that is related to one of the
\* first batch_size changes is appended to current_batch.
C22_ExtensionComplete ==
    pc = "call" =>
        \A i \in 1..Len(Candidates) :
            (\E j \in 1..Len(Snapshot) :
                RelatedTo(Snapshot[j].file, Candidates[i].file))
            => Candidates[i] \in Range(current_batch)

\* C23: a context-length failure of a sub-batch consumes nothing: the step
\* that handles it leaves the remaining list, the accumulated results and
\* the successful batches as they were, and the next attempt is built from
\* that same remaining list.
C23_FailureConsumesNothing ==
    /\ [][(pc = "call" /\ last'.outcome = "ctx")
            => /\ remaining_changes' = remaining_changes
               /\ all_results' = all_results
               /\ okBatches' = okBatches
               /\ pc' = "loop"]_vars
    /\ []((pc = "call" /\ last.outcome = "ctx")
            => /\ Take(last.batch, 1) = Take(remaining_changes, 1)
               /\ Take(current_batch, 1) = Take(remaining_changes, 1))

\* a sub-batch failed with a context-length error after an earlier sub-batch
\* had been accepted, and the next attempt has been built
C23_Witness ==
    /\ pc = "call"
    /\ last.outcome = "ctx"
    /\ okBatches # <<>>
    /\ all_results # <<>>

\* C24: batch_size starts at floor(n / 2), is left unchanged by a successful
\* batch, changes only by halving after a context-length failure, and never
\* increases within one analyze_changes call.
C24_BatchSizeEvolution ==
    [][/\ (~ batch_mode /\ batch_mode') => batch_size' = Len(changes) \div 2
       /\ batch_mode =>
            /\ batch_size' <= batch_size
            /\ okBatches' # okBatches => batch_size' = batch_size
            /\ batch_size' # batch_size
                  => /\ batch_size' = batch_size \div 2
                     /\ pc = "call"
                     /\ last'.outcome = "ctx"]_vars

\* a batch is about to be submitted with a halved size after an earlier
\* batch was accepted
C24_Witness ==
    /\ pc = "call"
    /\ okBatches # <<>>
    /\ batch_size >= 1
    /\ batch_size < Len(changes) \div 2

\* no two changes of the input are related
Unrelated ==
    \A i, j \in 1..Len(changes) :
        i # j => ~ RelatedTo(changes[i].file, changes[j].file)

RECURSIVE Flatten(_)
Flatten(lists) ==
    IF lists = <<>> THEN <<>> ELSE Head(lists) \o Flatten(Tail(lists))

\* C30: when no two changes of the input are related, each submitted
\* sub-batch is exactly the first min(batch_size, len(remaining)) changes of
\* remaining, the successful batches are consecutive slices of the input,
\* and on normal return they partition it in scan order.
C30_UnrelatedSlices ==
    (Unrelated /\ batch_mode) =>
        /\ pc = "call" => current_batch = Take(remaining_changes, batch_size)
        /\ Flatten(okBatches) \o remaining_changes = changes
        /\ pc = "returned" => Flatten(okBatches) = changes

\* four unrelated changes went through in more than one batch
C30_Witness ==
    /\ Unrelated
    /\ pc = "returned"
    /\ Len(changes) = MaxChanges
    /\ Len(okBatches) >= 2

----------------------------------------------------------------------------
(* Properties of the scans: deleted and renamed files *)

\* C25: for a tracked deleted file the Change has insertions 0 and deletions
\* equal to the number of lines of the file's last known content (the old
\* blob of the staged entry) when there is one, and 0 otherwise; the
\* unstaged scan holds no old content of a deleted file, and its Change has
\* no insertions.
C25_DeletedFileStats ==
    /\ scope = "staged" =>
         \A i \in 1..scanned :
            diff_index[i].deleted_file =>
               /\ scan_changes[i].status = "deleted"
               /\ scan_changes[i].insertions = 0
               /\ scan_changes[i].deletions =
                     (IF diff_index[i].a_blob.none THEN 0
                      ELSE Len(SplitLines(diff_index[i].a_blob.data)))
    /\ scope = "unstaged" =>
         \A i \in 1..Len(scan_changes) :
            scan_changes[i].status = "deleted" => scan_changes[i].insertions = 0

RenamedMessage(old, new) == <<"Renamed from ">> \o old \o <<" to ">> \o new

\* C26: in the staged scan a renamed file yields exactly one Change, with
\* status 'modified', the diff 'Renamed from <old> to <new>' and
\* insertions = deletions = 0.
C26_RenamedFile ==
    scope = "staged" =>
        /\ Len(scan_changes) = scanned
        /\ \A i \in 1..scanned :
              diff_index[i].a_path # diff_index[i].b_path =>
                 /\ scan_changes[i].status = "modified"
                 /\ scan_changes[i].diff =
                       RenamedMessage(diff_index[i].a_path, diff_index[i].b_path)
                 /\ scan_changes[i].insertions = 0
                 /\ scan_changes[i].deletions = 0

----------------------------------------------------------------------------
(* Properties of the run flow: ordering, push, content of the commits *)

\* the positions of commit_groups the user did not turn down
AcceptedPositions == { i \in 1..Len(answers) : answers[i] # "n" }

\* the k-th of them
AcceptedPosition(k) ==
    CHOOSE i \in AcceptedPositions :
        Cardinality({ j \in AcceptedPositions : j <= i }) = k

\* op returned normally somewhere before position i of trace
ReturnedBefore(op, i) == \E j \in RaisedAt({op}, {"none"}) : j < i

\* C27: no stage or commit operation occurs before the scan and the
\* analysis have both completed; stage_files and commit_changes are invoked
\* only for approved groups (the groups display_commit_groups accepted), in
\* the order the groups were presented, the stage of a group directly
\* preceding its commit and both preceding the stage of the next group.
C27_RunOrdering ==
    /\ \A i \in Invoked({"stage", "commit"}) :
          /\ ReturnedBefore("scan", i)
          /\ ReturnedBefore("analyze", i)
          /\ ReturnedBefore("approve", i)
          /\ trace[i].group \in 1..Len(approved_groups)
    /\ RaisedAt({"approve"}, {"none"}) # {} =>
          /\ Len(approved_groups) = Cardinality(AcceptedPositions)
          /\ \A k \in 1..Len(approved_groups) :
                approved_groups[k] = commit_groups[AcceptedPosition(k)]
    /\ \A k \in 1..Len(Attempted) : Attempted[k] = k
    /\ \A i \in Invoked({"commit"}) :
          i > 1 /\ trace[i - 1] = Event("stage", trace[i].group, "none")
    /\ \A i, j \in Invoked({"stage", "commit"}) :
          i < j => trace[i].group <= trace[j].group

\* the first of two groups was turned down, the second was committed, and
\* run returned
C27_Witness ==
    /\ Exited /\ ended_by = "return"
    /\ Len(commit_groups) = 2
    /\ commit_groups[1] # commit_groups[2]
    /\ answers = <<"n", "y">>
    /\ Len(commits) = 1

\* C28: push_changes is invoked at most once, only after stage_files was
\* called for every approved group, and only if the user answered yes to the
\* push question (not when no answer can be read); a push failure is
\* reported, and run then returns and the process ends with code 0.
C28_PushOptionalLast ==
    /\ Cardinality(Invoked({"push"})) <= 1
    /\ \A i \in Invoked({"push"}) :
          /\ confirmed = "y"
          /\ \A k \in 1..Len(approved_groups) :
                \E j \in Invoked({"stage"}) : j < i /\ trace[j].group = k
          /\ \A j \in Invoked({"stage", "commit"}) : j < i
    /\ (RaisedAt({"push"}, {"ValueError", "Exception"}) # {} /\ exc = "none") =>
          /\ Reports("Failed to push commits") = 1
          /\ run_pc \in {"returned", "exited"}
          /\ Exited => exit_code = 0 /\ ended_by = "return"

\* a commit was created, the push was confirmed and failed, and the process
\* has ended
C28_Witness ==
    /\ Exited
    /\ commits # <<>>
    /\ confirmed = "y"
    /\ RaisedAt({"push"}, {"Exception"}) # {}

\* C29: each commit created by run contains only the files of the approved
\* group whose commit message it carries.
C29_CommitContent ==
    /\ Len(commits) = Len(Created)
    /\ \A i \in 1..Len(commits) :
          /\ commits[i].message = approved_groups[Created[i]].commit_message
          /\ commits[i].files \subseteq Range(approved_groups[Created[i]].files)

====
